---- MODULE Spec2Model ----
(***************************************************************************)
(* Model of the DeXVision relay (src/server.js): the Chrome DevTools       *)
(* Protocol session with its retry loop, and the WebSocket broadcast hub   *)
(* with its heartbeat sweep.                                               *)
(*                                                                         *)
(* Node runs every callback to completion, so each action below is one     *)
(* callback, or one continuation of attachToChromeWithRetry between two    *)
(* awaits.                                                                 *)
(***************************************************************************)
EXTENDS Integers, Sequences, FiniteSets, TLC

\* ---- bounds of the model ------------------------------------------------
\* handles CDP() may hand out, invocations of attachToChromeWithRetry,
\* downstream sockets that may connect, broadcast calls, counted sweeps
MaxHandles == 3
MaxLoops == 2
MaxSockets == 2
MaxEvents == 2
SweepCap == 3
\* targets in the list CDP.List returns, client heartbeat ticks
MaxTargets == 2
MaxTicks == 3
\* WebSockets the client may create
MaxMade == 6
\* Request ids the relay sends.
MaxIds == 2
\* Spheres the client allocates.
MaxMeshes == 4
\* The cap on tracked spheres, 1200 in the source, scaled down.
MAX_SPHERES == 2

\* ---- configuration (src/server.js:23-28, defaults) -----------------------
RETRY_INTERVAL_MS == 1000
MAX_RETRY_ATTEMPTS == 5
CDP_PORT == 9222
WS_PORT == 8080
\* the client's default of maxRetryAttempts: in the code (0 is "infinite") and
\* in the README
DEFAULT_MAX_ATTEMPTS == 0
README_MAX_ATTEMPTS == 5

VARIABLES
    listening,     \* the server.listen callback has run
    loops,         \* the invocations of attachToChromeWithRetry that have not
                   \* returned, in call order
    nLoops,        \* invocations of attachToChromeWithRetry so far
    fatals,        \* "Exceeded max attempts" reports so far
    handles,       \* the clients CDP() has returned, in creation order
    cdpClient,     \* the module variable cdpClient: 0 is null, else a handle
    lastAttached,  \* the handle whose listeners were registered last (0: none)
    shuttingDown,  \* the module variable shuttingDown
    heartbeat,     \* the heartbeat interval is armed
    exited,        \* process.exit has run
    clients,       \* the Set clients, in insertion order
    readyState,    \* ws.readyState of each downstream socket
    isAlive,       \* ws.isAlive
    terminated,    \* ws.terminate() has been called
    pings,         \* probes sent that the peer has not answered yet
    pongs,         \* answers of the peer that have not arrived yet
    missed,        \* sweeps the socket went through since it registered or
                   \* last answered a probe (counted up to SweepCap)
    sendThrows,    \* the sockets whose send() throws
    received,      \* the frames handed to ws.send() without a throw, in order
    removedBy,     \* the path that took the socket out of clients
    nBroadcast,    \* calls of broadcast so far
    uncaught,      \* an exception has escaped a callback
    ALLOWED_ORIGIN, \* process.env.ALLOWED_ORIGIN, "" when unset
    SHARED_SECRET, \* process.env.SHARED_SECRET, "" when unset
    rejected,      \* the upgrade requests answered with 401
    list,          \* the targets CDP.List returns
    target,        \* the target handed to CDP()
    sentPings,     \* {type:'ping'} frames each client has sent since it opened
    healthBody,    \* the body of the last /health response
    exitCode,      \* the code of the first callback given to server.close
    codes,         \* the codes shutdown() has been called with
    \* the browser client (src/unnamed/part_000)
    maxAttempts,   \* cfg.maxAttempts
    sockets,       \* the client's WebSockets that can still emit an event
    made,          \* WebSockets the client has created
    current,       \* the variable ws: the id of a socket, 0 for null
    attempts,      \* the variable attempts
    timers,        \* pending setTimeout(connect, delay) timers
    heartbeatTimer, \* the client's heartbeat interval is armed
    sinceLastPong, \* heartbeat ticks since lastPong was set (counted up to MaxTicks)
    requestMap,    \* id -> mesh
    requestOrder,  \* the FIFO of ids
    requestGroup,  \* requestGroup.children
    spherePool,    \* the pooled meshes
    meshes         \* meshes created so far

upVars == <<listening, loops, nLoops, fatals, handles, cdpClient, lastAttached>>
procVars == <<shuttingDown, heartbeat, exited>>
hubVars == <<clients, readyState, isAlive, terminated, pings, pongs, missed,
             sendThrows, received, removedBy, nBroadcast, uncaught>>
envVars == <<ALLOWED_ORIGIN, SHARED_SECRET, rejected, list, target, sentPings>>
healthVars == <<healthBody>>
exitVars == <<exitCode, codes>>
clientVars == <<maxAttempts, sockets, made, current, attempts, timers,
                heartbeatTimer, sinceLastPong>>
sceneVars == <<requestMap, requestOrder, requestGroup, spherePool, meshes>>
appVars == <<healthVars, exitVars, clientVars, sceneVars>>
serverVars == <<upVars, procVars, hubVars, envVars>>
vars == <<listening, loops, nLoops, fatals, handles, cdpClient, lastAttached,
          shuttingDown, heartbeat, exited,
          clients, readyState, isAlive, terminated, pings, pongs, missed,
          sendThrows, received, removedBy, nBroadcast, uncaught,
          ALLOWED_ORIGIN, SHARED_SECRET, rejected, list, target, sentPings,
          healthBody, exitCode, codes,
          maxAttempts, sockets, made, current, attempts, timers,
          heartbeatTimer, sinceLastPong,
          requestMap, requestOrder, requestGroup, spherePool, meshes>>

Sockets == 1..MaxSockets
Kinds == {"network", "networkFinish", "exception"}

RECURSIVE Pow2(_)
Pow2(n) == IF n <= 0 THEN 1 ELSE 2 * Pow2(n - 1)

\* ---- the retry loop ------------------------------------------------------
\* Faulty variant: the delay stops doubling at four times the base.
BackoffCapped(attempt) ==
    IF attempt >= 3 THEN RETRY_INTERVAL_MS * 4
    ELSE RETRY_INTERVAL_MS * Pow2(attempt - 1)

\* The delay of the catch branch, after the attempt counter was incremented.
Backoff(attempt) == RETRY_INTERVAL_MS * Pow2(attempt - 1)

\* Faulty variant: the while guard does not read shuttingDown.
LoopHeadIgnoresShutdown(l) ==
    IF l.attempt >= MAX_RETRY_ATTEMPTS
    THEN [l EXCEPT !.pc = "stopped"]
    ELSE [l EXCEPT !.pc = "discover"]

\* The head of the while loop: return when shutting down, else a new
\* attempt starts with the discovery call.
LoopHead(l) ==
    IF shuttingDown \/ l.attempt >= MAX_RETRY_ATTEMPTS
    THEN [l EXCEPT !.pc = "stopped"]
    ELSE [l EXCEPT !.pc = "discover"]

\* Faulty variant: the sequence starts in the backoff of a failed attempt.
NewLoopAfterDelay ==
    [pc |-> "backoff", attempt |-> 1, h |-> 0, delay |-> Backoff(1)]

\* attachToChromeWithRetry(label) up to its first await.
NewLoop == LoopHead([pc |-> "new", attempt |-> 0, h |-> 0, delay |-> 0])

\* The catch branch: count the failure, give up at the maximum, else sleep.
Catch(l) ==
    IF l.attempt + 1 >= MAX_RETRY_ATTEMPTS
    THEN [l EXCEPT !.pc = "gaveup", !.attempt = l.attempt + 1, !.h = 0]
    ELSE [l EXCEPT !.pc = "backoff", !.attempt = l.attempt + 1, !.h = 0,
                   !.delay = Backoff(l.attempt + 1)]

\* An invocation that has returned keeps no state; what it logged is counted.
Returned(l) == l.pc \in {"attached", "gaveup", "stopped"}

Settle(q, l) == IF Returned(l) THEN q ELSE Append(q, l)

Replace(q, i, l) ==
    IF Returned(l)
    THEN SubSeq(q, 1, i - 1) \o SubSeq(q, i + 1, Len(q))
    ELSE [q EXCEPT ![i] = l]

Fatal(l) == IF l.pc = "gaveup" THEN 1 ELSE 0

Live(h) == handles[h].st \in {"open", "closing"}

\* server.listen callback: the initial attach sequence. The server emits
\* 'listening' before any signal is handled; after a shutdown that came first
\* (the listen failed), it never does.
Start ==
    /\ ~exited /\ ~listening /\ ~shuttingDown
    /\ listening' = TRUE
    /\ loops' = Settle(loops, NewLoop)
    /\ nLoops' = nLoops + 1
    /\ UNCHANGED <<appVars, envVars, fatals, handles, cdpClient, lastAttached, procVars, hubVars>>

\* ---- target discovery ---------------------------------------------------
\* A url is the sequence of its scheme prefix and the rest; << >> is the
\* empty string.
Urls == {<< >>, <<"http://", "a">>, <<"chrome://", "x">>, <<"devtools://", "d">>}
Types == {"page", "background_page", "other"}
Targets == [type : Types, url : Urls]

\* The lists CDP.List may return.
RECURSIVE ListsOf(_)
ListsOf(n) ==
    IF n = 0 THEN {<< >>}
    ELSE LET shorter == ListsOf(n - 1) IN
         shorter \cup {Append(l, t) : l \in {x \in shorter : Len(x) = n - 1}, t \in Targets}

Lists == ListsOf(MaxTargets)

\* undefined: what find() and list[0] give when there is nothing.
NoTarget == [type |-> "undefined", url |-> << >>]

\* url.startsWith(prefix)
startsWith(url, prefix) == url # << >> /\ url[1] = prefix

\* The predicate handed to list.find.
IsPage(t) ==
    /\ t.type = "page" \/ t.type = "background_page"
    /\ t.url # << >>
    /\ ~startsWith(t.url, "devtools://")
    /\ ~startsWith(t.url, "chrome://")

\* Array.prototype.find: the first element that satisfies IsPage, or undefined.
RECURSIVE find(_)
find(l) ==
    IF l = << >> THEN NoTarget
    ELSE IF IsPage(Head(l)) THEN Head(l) ELSE find(Tail(l))

\* Faulty variant: the internal schemes are not excluded.
findAnyPage(l) ==
    LET pages == SelectSeq(l, LAMBDA t : t.type = "page" \/ t.type = "background_page") IN
    IF pages # << >> THEN pages[1]
    ELSE IF l # << >> THEN l[1] ELSE NoTarget

\* findAttachableTarget, after CDP.List resolved with l: page || list[0].
findAttachableTarget(l) ==
    IF find(l) # NoTarget THEN find(l)
    ELSE IF l # << >> THEN l[1] ELSE NoTarget

\* findAttachableTarget resolved with a target; CDP() is called.
DiscoverOk(i) ==
    /\ ~exited /\ loops[i].pc = "discover"
    /\ findAttachableTarget(list) # NoTarget
    /\ target' = findAttachableTarget(list)
    /\ loops' = [loops EXCEPT ![i].pc = "attach"]
    /\ UNCHANGED <<appVars, ALLOWED_ORIGIN, SHARED_SECRET, rejected, list, sentPings>>
    /\ UNCHANGED <<appVars, listening, nLoops, fatals, handles, cdpClient, lastAttached, procVars, hubVars>>

\* CDP.List rejected, or the list was empty ("No debuggable targets found").
DiscoverFail(i) ==
    /\ ~exited /\ loops[i].pc = "discover"
    /\ loops' = Replace(loops, i, Catch(loops[i]))
    /\ fatals' = fatals + Fatal(Catch(loops[i]))
    /\ UNCHANGED <<appVars, envVars, listening, nLoops, handles, cdpClient, lastAttached, procVars, hubVars>>

\* CDP.List resolved and findAttachableTarget returned undefined: the loop
\* throws 'No debuggable targets found'.
DiscoverNone(i) ==
    /\ findAttachableTarget(list) = NoTarget
    /\ DiscoverFail(i)

\* CDP() resolved: cdpClient is assigned and the disconnect handler is
\* registered; the four enable calls are sent.
AttachOk(i) ==
    /\ ~exited /\ loops[i].pc = "attach"
    /\ Len(handles) < MaxHandles
    /\ handles' = Append(handles, [st |-> "open", listeners |-> FALSE, timer |-> "none"])
    /\ cdpClient' = Len(handles) + 1
    /\ loops' = [loops EXCEPT ![i].pc = "enable", ![i].h = Len(handles) + 1]
    /\ UNCHANGED <<appVars, envVars, listening, nLoops, fatals, lastAttached, procVars, hubVars>>

\* CDP() rejected.
AttachFail(i) ==
    /\ ~exited /\ loops[i].pc = "attach"
    /\ loops' = Replace(loops, i, Catch(loops[i]))
    /\ fatals' = fatals + Fatal(Catch(loops[i]))
    /\ UNCHANGED <<appVars, envVars, listening, nLoops, handles, cdpClient, lastAttached, procVars, hubVars>>

\* emitPerformanceMetrics up to its await.
MetricsGuard == IF cdpClient = 0 \/ shuttingDown THEN "stopped" ELSE "fetch"

\* Promise.all resolved: the three listeners are registered, the metrics
\* timer chain starts, the function returns.
EnableOk(i) ==
    /\ ~exited /\ loops[i].pc = "enable"
    /\ Live(loops[i].h)
    /\ handles' = [handles EXCEPT ![loops[i].h].listeners = TRUE,
                                  ![loops[i].h].timer = MetricsGuard]
    /\ lastAttached' = loops[i].h
    /\ loops' = Replace(loops, i, [loops[i] EXCEPT !.pc = "attached"])
    /\ UNCHANGED <<appVars, envVars, listening, nLoops, fatals, cdpClient, procVars, hubVars>>

\* Faulty variant: the listeners are registered before the enable calls
\* settle, so a failed activation leaves them on the handle.
EnableFailKeepsListeners(i) ==
    /\ ~exited /\ loops[i].pc = "enable"
    /\ handles' = [handles EXCEPT ![loops[i].h].listeners = TRUE]
    /\ loops' = Replace(loops, i, Catch(loops[i]))
    /\ fatals' = fatals + Fatal(Catch(loops[i]))
    /\ UNCHANGED <<appVars, envVars, listening, nLoops, cdpClient, lastAttached, procVars, hubVars>>

\* One of the enable calls rejected (the target lacks the domain, or the
\* connection dropped): the catch branch runs, the handle is left as it is.
EnableFail(i) ==
    /\ ~exited /\ loops[i].pc = "enable"
    /\ loops' = Replace(loops, i, Catch(loops[i]))
    /\ fatals' = fatals + Fatal(Catch(loops[i]))
    /\ UNCHANGED <<appVars, envVars, listening, nLoops, handles, cdpClient, lastAttached, procVars, hubVars>>

\* The backoff timer fired: back to the head of the while loop.
BackoffExpire(i) ==
    /\ ~exited /\ loops[i].pc = "backoff"
    /\ loops' = Replace(loops, i, LoopHead(loops[i]))
    /\ UNCHANGED <<appVars, envVars, listening, nLoops, fatals, handles, cdpClient, lastAttached, procVars, hubVars>>

\* The transport of a handle dropped: its 'disconnect' handler runs.
Disconnect(h) ==
    /\ ~exited /\ h \in 1..Len(handles) /\ Live(h)
    /\ shuttingDown \/ nLoops < MaxLoops
    /\ handles' = [handles EXCEPT ![h].st = "closed"]
    /\ loops' = IF shuttingDown THEN loops ELSE Settle(loops, NewLoop)
    /\ nLoops' = IF shuttingDown THEN nLoops ELSE nLoops + 1
    /\ UNCHANGED <<appVars, envVars, listening, fatals, cdpClient, lastAttached, procVars, hubVars>>

\* ---- the broadcast hub ---------------------------------------------------
Remove(q, ws) == SelectSeq(q, LAMBDA x : x # ws)
InSeq(q, ws) == \E k \in 1..Len(q) : q[k] = ws

\* JSON.stringify(event): the text frame of an event.
JSONstringify(event) == [json |-> event]

\* ws.terminate(): the socket is destroyed; its 'close' event comes later.
Terminate(st, ws) ==
    [st EXCEPT !.terminated[ws] = TRUE,
               !.readyState[ws] = IF @ = "CLOSED" THEN "CLOSED" ELSE "CLOSING"]

\* Faulty variant: removal by index, splice(indexOf(ws), 1): for an absent
\* socket the index is -1 and the newest subscriber goes.
DeleteBySplice(st, ws, path) ==
    IF InSeq(st.clients, ws)
    THEN [st EXCEPT !.clients = Remove(@, ws), !.removedBy[ws] = path]
    ELSE [st EXCEPT !.clients = SubSeq(@, 1, Len(@) - 1)]

\* clients.delete(ws), noting the path that removed it.
Delete(st, ws, path) ==
    IF InSeq(st.clients, ws)
    THEN [st EXCEPT !.clients = Remove(@, ws), !.removedBy[ws] = path]
    ELSE st

\* The hub's part of the state, as the loops over clients thread it.
HubState ==
    [clients |-> clients, readyState |-> readyState, isAlive |-> isAlive,
     terminated |-> terminated, pings |-> pings, received |-> received,
     removedBy |-> removedBy, threw |-> FALSE]

\* Faulty variant: send is not wrapped in try/catch: the throw leaves broadcast.
SendToNoCatch(st, ws, payload) ==
    IF st.readyState[ws] # "OPEN"
    THEN Delete(st, ws, "notOpen")
    ELSE IF ws \in sendThrows
         THEN [st EXCEPT !.threw = TRUE]
         ELSE [st EXCEPT !.received[ws] = Append(@, payload)]

\* Faulty variant: the catch branch forgets ws.terminate().
SendToNoTerminate(st, ws, payload) ==
    IF st.readyState[ws] # "OPEN"
    THEN Delete(st, ws, "notOpen")
    ELSE IF ws \in sendThrows
         THEN Delete(st, ws, "sendError")
         ELSE [st EXCEPT !.received[ws] = Append(@, payload)]

\* Faulty variant: the frame is queued ahead of the frames sent before it.
SendToOutOfOrder(st, ws, payload) ==
    IF st.readyState[ws] # "OPEN"
    THEN Delete(st, ws, "notOpen")
    ELSE IF ws \in sendThrows
         THEN Terminate(Delete(st, ws, "sendError"), ws)
         ELSE [st EXCEPT !.received[ws] = <<payload>> \o @]

\* The body of broadcast's loop, for one subscriber.
SendTo(st, ws, payload) ==
    IF st.readyState[ws] # "OPEN"
    THEN Delete(st, ws, "notOpen")
    ELSE IF ws \in sendThrows
         THEN Terminate(Delete(st, ws, "sendError"), ws)
         ELSE [st EXCEPT !.received[ws] = Append(@, payload)]

\* for (const ws of clients): q is what is left to visit. Deleting the
\* current element of a Set does not disturb the iteration.
RECURSIVE ForEachSend(_, _, _)
ForEachSend(q, st, payload) ==
    IF q = << >> \/ st.threw THEN st
    ELSE ForEachSend(Tail(q), SendTo(st, Head(q), payload), payload)

broadcast(event) == ForEachSend(clients, HubState, JSONstringify(event))

\* A listener or the metrics tick calls broadcast(event).
Publish(event) ==
    LET st == broadcast(event) IN
    /\ clients' = st.clients
    /\ readyState' = st.readyState
    /\ terminated' = st.terminated
    /\ received' = st.received
    /\ removedBy' = st.removedBy
    /\ uncaught' = (uncaught \/ st.threw)
    /\ nBroadcast' = nBroadcast + 1
    /\ UNCHANGED <<appVars, envVars, isAlive, pings, pongs, missed, sendThrows>>

\* Faulty variant: a dead socket is terminated but stays in clients.
ProbeNoDelete(st, ws) ==
    IF st.isAlive[ws] = FALSE
    THEN Terminate(st, ws)
    ELSE [st EXCEPT !.isAlive[ws] = FALSE,
                    !.pings[ws] = IF st.readyState[ws] = "OPEN" THEN @ + 1 ELSE @]

\* The body of the heartbeat's loop, for one subscriber.
Probe(st, ws) ==
    IF st.isAlive[ws] = FALSE
    THEN Delete(Terminate(st, ws), ws, "heartbeat")
    ELSE [st EXCEPT !.isAlive[ws] = FALSE,
                    !.pings[ws] = IF st.readyState[ws] = "OPEN" THEN @ + 1 ELSE @]

RECURSIVE ForEachProbe(_, _)
ForEachProbe(q, st) ==
    IF q = << >> THEN st ELSE ForEachProbe(Tail(q), Probe(st, Head(q)))

\* ---- the upgrade request ---------------------------------------------------
\* info.origin: the Origin header, or undefined. The token query parameter:
\* null when the query has none.
Origins == {"undefined", "https://app", "https://evil"}
Tokens == {"null", "", "s3cret", "wrong"}

\* Faulty variant: a request without a token passes the secret check.
verifyClientSkipsMissing(origin, token) ==
    ~ \/ (ALLOWED_ORIGIN # "" /\ origin # ALLOWED_ORIGIN)
      \/ (SHARED_SECRET # "" /\ token # "null" /\ token # SHARED_SECRET)

\* verifyClient: TRUE is done(true), FALSE is done(false, 401, 'Unauthorized').
verifyClient(origin, token) ==
    ~ \/ (ALLOWED_ORIGIN # "" /\ origin # ALLOWED_ORIGIN)
      \/ (SHARED_SECRET # "" /\ token # SHARED_SECRET)

\* The socket id has been used by an earlier upgrade request.
Used(ws) == readyState[ws] # "NONE" \/ ws \in rejected

\* wss.on('connection'): sockets are numbered in the order they connect.
Connection(ws) ==
    /\ ~exited /\ listening /\ ~shuttingDown
    /\ ~Used(ws)
    /\ \A t \in Sockets : t < ws => Used(t)
    /\ readyState' = [readyState EXCEPT ![ws] = "OPEN"]
    /\ isAlive' = [isAlive EXCEPT ![ws] = TRUE]
    /\ clients' = Append(clients, ws)
    /\ UNCHANGED <<appVars, envVars, upVars, procVars, terminated, pings, pongs, missed,
                   sendThrows, received, removedBy, nBroadcast, uncaught>>

\* An upgrade request arrives: verifyClient decides; the accepted socket goes
\* through the 'connection' handler, the other one gets the 401 response.
Upgrade(ws, origin, token) ==
    IF verifyClient(origin, token)
    THEN Connection(ws)
    ELSE /\ ~exited /\ listening /\ ~shuttingDown
         /\ ~Used(ws)
         /\ \A t \in Sockets : t < ws => Used(t)
         /\ rejected' = rejected \cup {ws}
         /\ UNCHANGED <<appVars, ALLOWED_ORIGIN, SHARED_SECRET, list, target, sentPings,
                        upVars, procVars, hubVars>>

\* The peer answers a probe it has received.
PeerAnswers(ws) ==
    /\ ~exited /\ readyState[ws] = "OPEN" /\ pings[ws] > 0
    /\ pings' = [pings EXCEPT ![ws] = @ - 1]
    /\ pongs' = [pongs EXCEPT ![ws] = @ + 1]
    /\ UNCHANGED <<appVars, envVars, upVars, procVars, clients, readyState, isAlive, terminated, missed,
                   sendThrows, received, removedBy, nBroadcast, uncaught>>

\* Faulty variant: the pong handler does not mark the socket alive.
OnPongIgnored(alive, ws) == alive

\* ws.on('pong', () => { ws.isAlive = true; })
OnPong(alive, ws) == [alive EXCEPT ![ws] = TRUE]

\* A pong arrives: the 'pong' handler runs.
Pong(ws) ==
    /\ ~exited /\ readyState[ws] = "OPEN" /\ pongs[ws] > 0
    /\ pongs' = [pongs EXCEPT ![ws] = @ - 1]
    /\ isAlive' = OnPong(isAlive, ws)
    /\ missed' = [missed EXCEPT ![ws] = 0]
    /\ UNCHANGED <<appVars, envVars, upVars, procVars, clients, readyState, terminated, pings,
                   sendThrows, received, removedBy, nBroadcast, uncaught>>

\* The peer began the closing handshake: the socket is CLOSING, no handler runs.
PeerClosing(ws) ==
    /\ ~exited /\ readyState[ws] = "OPEN"
    /\ readyState' = [readyState EXCEPT ![ws] = "CLOSING"]
    /\ UNCHANGED <<appVars, envVars, upVars, procVars, clients, isAlive, terminated, pings, pongs, missed,
                   sendThrows, received, removedBy, nBroadcast, uncaught>>

\* ws.on('close'): the socket is CLOSED when the event is emitted.
SocketClose(ws) ==
    /\ ~exited /\ readyState[ws] \in {"OPEN", "CLOSING"}
    /\ LET st == Delete([HubState EXCEPT !.readyState[ws] = "CLOSED"], ws, "close") IN
        /\ clients' = st.clients
        /\ readyState' = st.readyState
        /\ removedBy' = st.removedBy
    /\ UNCHANGED <<appVars, envVars, upVars, procVars, isAlive, terminated, pings, pongs, missed,
                   sendThrows, received, nBroadcast, uncaught>>

\* ws.on('error'): ws has set the socket CLOSING before it emits the event.
SocketError(ws) ==
    /\ ~exited /\ readyState[ws] \in {"OPEN", "CLOSING"}
    /\ LET st == Terminate(Delete(HubState, ws, "error"), ws) IN
        /\ clients' = st.clients
        /\ readyState' = st.readyState
        /\ terminated' = st.terminated
        /\ removedBy' = st.removedBy
    /\ UNCHANGED <<appVars, envVars, upVars, procVars, isAlive, pings, pongs, missed,
                   sendThrows, received, nBroadcast, uncaught>>

\* The send() of an open socket starts to throw.
SendFault(ws) ==
    /\ ~exited /\ readyState[ws] = "OPEN" /\ ws \notin sendThrows
    /\ sendThrows' = sendThrows \cup {ws}
    /\ UNCHANGED <<appVars, envVars, upVars, procVars, clients, readyState, isAlive, terminated, pings, pongs,
                   missed, received, removedBy, nBroadcast, uncaught>>

\* The setInterval callback of the heartbeat.
Heartbeat ==
    /\ ~exited /\ heartbeat
    /\ LET st == ForEachProbe(clients, HubState) IN
        /\ clients' = st.clients
        /\ readyState' = st.readyState
        /\ isAlive' = st.isAlive
        /\ terminated' = st.terminated
        /\ pings' = st.pings
        /\ removedBy' = st.removedBy
    /\ missed' = [s \in Sockets |->
                    IF InSeq(clients, s) /\ missed[s] < SweepCap
                    THEN missed[s] + 1 ELSE missed[s]]
    /\ UNCHANGED <<appVars, envVars, upVars, procVars, pongs, sendThrows, received, nBroadcast, uncaught>>

\* ---- the client's heartbeat (src/unnamed/part_000) ---------------------------
\* The client's message handler takes a frame for a pong when its type is 'pong'.
IsPong(frame) == "type" \in DOMAIN frame.json /\ frame.json.type = "pong"

\* lastPong has moved since startHeartbeat set it: a pong frame has arrived.
ClientSawPong(ws) == \E k \in 1..Len(received[ws]) : IsPong(received[ws][k])

\* Date.now() - lastPong > cfg.heartbeatMs * 2.5 at the k-th tick after
\* lastPong was set, the ticks being heartbeatMs apart.
ClientTimedOut(k) == 2 * k > 5

\* A tick of the client's heartbeat timer: it sends {type:'ping', t}, then
\* closes the socket if lastPong is too old. The relay registers no 'message'
\* listener, so the frame has no effect there.
ClientTick(ws) ==
    /\ ~exited /\ readyState[ws] = "OPEN"
    /\ sentPings[ws] < MaxTicks
    /\ sentPings' = [sentPings EXCEPT ![ws] = @ + 1]
    /\ readyState' = IF ~ClientSawPong(ws) /\ ClientTimedOut(sentPings[ws] + 1)
                     THEN [readyState EXCEPT ![ws] = "CLOSING"]
                     ELSE readyState
    /\ UNCHANGED <<appVars, ALLOWED_ORIGIN, SHARED_SECRET, rejected, list, target,
                   upVars, procVars, clients, isAlive, terminated, pings, pongs,
                   missed, sendThrows, received, removedBy, nBroadcast, uncaught>>

\* ---- events of an attached handle -----------------------------------------
\* Network.responseReceived, Network.loadingFinished, Runtime.exceptionThrown.
DomainEvent(h, kind) ==
    /\ ~exited /\ handles[h].listeners /\ Live(h)
    /\ nBroadcast < MaxEvents
    /\ Publish([kind |-> kind, src |-> h, n |-> nBroadcast + 1])
    /\ UNCHANGED <<appVars, envVars, upVars, procVars>>

\* Performance.getMetrics() resolved: broadcast, then the finally arms the timer.
MetricsOk(h) ==
    /\ ~exited /\ handles[h].timer = "fetch" /\ Live(h)
    /\ nBroadcast < MaxEvents
    /\ Publish([kind |-> "performance", src |-> h, n |-> nBroadcast + 1])
    /\ handles' = [handles EXCEPT ![h].timer = "wait"]
    /\ UNCHANGED <<appVars, envVars, listening, loops, nLoops, fatals, cdpClient, lastAttached, procVars>>

\* Faulty variant: the timer is armed in the try block, after the broadcast,
\* so a rejected fetch ends the chain.
MetricsFailStops(h) ==
    /\ ~exited /\ handles[h].timer = "fetch"
    /\ handles' = [handles EXCEPT ![h].timer = "stopped"]
    /\ UNCHANGED <<appVars, envVars, listening, loops, nLoops, fatals, cdpClient, lastAttached, procVars, hubVars>>

\* Performance.getMetrics() rejected: the catch swallows it, the finally arms the timer.
MetricsFail(h) ==
    /\ ~exited /\ handles[h].timer = "fetch"
    /\ handles' = [handles EXCEPT ![h].timer = "wait"]
    /\ UNCHANGED <<appVars, envVars, listening, loops, nLoops, fatals, cdpClient, lastAttached, procVars, hubVars>>

\* The metrics timer fired: emitPerformanceMetrics up to its await.
MetricsTick(h) ==
    /\ ~exited /\ handles[h].timer = "wait"
    /\ handles' = [handles EXCEPT ![h].timer = MetricsGuard]
    /\ UNCHANGED <<appVars, envVars, listening, loops, nLoops, fatals, cdpClient, lastAttached, procVars, hubVars>>

\* ---- the HTTP side channel ---------------------------------------------------
\* JSON.stringify({ ok: true, cdpPort: CDP_PORT, wsPort: WS_PORT })
HealthResponse == [ok |-> TRUE, cdpPort |-> CDP_PORT, wsPort |-> WS_PORT]

\* GET /health: 200 with the body above.
Health ==
    /\ ~exited /\ listening /\ ~shuttingDown
    /\ healthBody' = HealthResponse
    /\ UNCHANGED <<exitVars, clientVars, sceneVars, serverVars>>

\* ---- the browser client: connection (src/unnamed/part_000) ---------------------
\* readyState of the client's socket id; a socket that has emitted 'close' is
\* no longer in sockets.
StateOf(q, id) ==
    IF \E k \in 1..Len(q) : q[k].id = id
    THEN q[CHOOSE k \in 1..Len(q) : q[k].id = id].st
    ELSE "closed"

\* socket.close(): a connecting or open socket starts closing; its 'close'
\* event comes later. Nothing happens to a closing or closed socket, or to null.
Close(q, id) ==
    [k \in 1..Len(q) |->
        IF q[k].id = id /\ q[k].st \in {"connecting", "open"}
        THEN [q[k] EXCEPT !.st = "closing"] ELSE q[k]]

Drop(q, id) == SelectSeq(q, LAMBDA x : x.id # id)

\* connect(): close the socket ws names, create a new one and register its
\* four listeners.
connect ==
    /\ made < MaxMade
    /\ sockets' = Append(Close(sockets, current), [id |-> made + 1, st |-> "connecting"])
    /\ made' = made + 1
    /\ current' = made + 1

\* scheduleReconnect(): the new value of attempts and of the pending timers.
scheduleReconnect ==
    /\ attempts' = attempts + 1
    /\ timers' = IF maxAttempts > 0 /\ attempts + 1 > maxAttempts
                 THEN timers ELSE timers + 1

\* 'open' of socket id: attempts = 0; startHeartbeat().
SocketOpen(id) ==
    /\ StateOf(sockets, id) = "connecting"
    /\ sockets' = [k \in 1..Len(sockets) |->
                      IF sockets[k].id = id THEN [sockets[k] EXCEPT !.st = "open"]
                      ELSE sockets[k]]
    /\ attempts' = 0
    /\ heartbeatTimer' = TRUE
    /\ sinceLastPong' = 0
    /\ UNCHANGED <<maxAttempts, made, current, timers,
                   healthVars, exitVars, sceneVars, serverVars>>

\* 'close' of socket id (the connection failed, the peer or the network ended
\* it, or close() was called on it): scheduleReconnect().
SocketClosed(id) ==
    /\ StateOf(sockets, id) # "closed"
    /\ sockets' = Drop(sockets, id)
    /\ scheduleReconnect
    /\ UNCHANGED <<maxAttempts, made, current, heartbeatTimer, sinceLastPong,
                   healthVars, exitVars, sceneVars, serverVars>>

\* 'error' of socket id: the handler calls close() on the socket ws names.
\* The socket that failed emits 'close' next.
SocketErrored(id) ==
    /\ StateOf(sockets, id) \in {"connecting", "open"}
    /\ sockets' = Close(Close(sockets, id), current)
    /\ UNCHANGED <<maxAttempts, made, current, attempts, timers, heartbeatTimer,
                   sinceLastPong, healthVars, exitVars, sceneVars, serverVars>>

\* A setTimeout(connect, delay) timer fires.
TimerFires ==
    /\ timers > 0
    /\ timers' = timers - 1
    /\ connect
    /\ UNCHANGED <<maxAttempts, attempts, heartbeatTimer, sinceLastPong,
                   healthVars, exitVars, sceneVars, serverVars>>

\* window.__orbitviz__.reconnect()
Reconnect ==
    /\ connect
    /\ UNCHANGED <<maxAttempts, attempts, timers, heartbeatTimer, sinceLastPong,
                   healthVars, exitVars, sceneVars, serverVars>>

\* A tick of the heartbeat interval, which no handler clears: send the ping
\* (dropped by the relay, or thrown and swallowed), then close the socket ws
\* names if lastPong is too old. No frame of the relay has type 'pong', so
\* lastPong only moves in startHeartbeat.
HeartbeatTick ==
    /\ heartbeatTimer
    /\ sinceLastPong < MaxTicks
    /\ sinceLastPong' = sinceLastPong + 1
    /\ sockets' = IF ClientTimedOut(sinceLastPong + 1)
                  THEN Close(sockets, current) ELSE sockets
    /\ UNCHANGED <<maxAttempts, made, current, attempts, timers, heartbeatTimer,
                   healthVars, exitVars, sceneVars, serverVars>>

\* ---- teardown -------------------------------------------------------------
\* Faulty variant: clearInterval(heartbeat) is missing.
shutdownKeepsHeartbeat(code) ==
    /\ ~exited
    /\ shuttingDown' = TRUE
    /\ heartbeat' = heartbeat
    /\ handles' = IF cdpClient # 0 /\ handles[cdpClient].st = "open"
                  THEN [handles EXCEPT ![cdpClient].st = "closing"]
                  ELSE handles
    /\ readyState' = [s \in Sockets |->
                        IF InSeq(clients, s) /\ readyState[s] = "OPEN"
                        THEN "CLOSING" ELSE readyState[s]]
    /\ exitCode' = IF shuttingDown THEN exitCode ELSE code
    /\ codes' = codes \cup {code}
    /\ UNCHANGED <<healthVars, clientVars, sceneVars, envVars, listening, loops,
                   nLoops, fatals, cdpClient, lastAttached, exited, clients, isAlive,
                   terminated, pings, pongs, missed, sendThrows, received, removedBy,
                   nBroadcast, uncaught>>

\* shutdown(code). server.close(cb) adds cb to the listeners of the server's
\* 'close' event, which run in the order they were added: the callback of
\* the first call is the one that gets to call process.exit.
shutdown(code) ==
    /\ ~exited
    /\ shuttingDown' = TRUE
    /\ heartbeat' = FALSE
    /\ handles' = IF cdpClient # 0 /\ handles[cdpClient].st = "open"
                  THEN [handles EXCEPT ![cdpClient].st = "closing"]
                  ELSE handles
    /\ readyState' = [s \in Sockets |->
                        IF InSeq(clients, s) /\ readyState[s] = "OPEN"
                        THEN "CLOSING" ELSE readyState[s]]
    /\ exitCode' = IF shuttingDown THEN exitCode ELSE code
    /\ codes' = codes \cup {code}
    /\ UNCHANGED <<healthVars, clientVars, sceneVars, envVars, listening, loops,
                   nLoops, fatals, cdpClient, lastAttached, exited, clients, isAlive,
                   terminated, pings, pongs, missed, sendThrows, received, removedBy,
                   nBroadcast, uncaught>>

\* SIGINT or SIGTERM: shutdown(0).
Shutdown == shutdown(0)

\* The callback of server.close: every connection has ended; process.exit.
Exit ==
    /\ ~exited /\ shuttingDown
    /\ \A s \in Sockets : readyState[s] \in {"NONE", "CLOSED"}
    /\ exited' = TRUE
    /\ UNCHANGED <<appVars, envVars, upVars, shuttingDown, heartbeat, hubVars>>

NoResponse == [ok |-> FALSE]

\* The client after app.js was loaded: connect() has created the first socket.
InitClient ==
    /\ sockets = <<[id |-> 1, st |-> "connecting"]>>
    /\ made = 1
    /\ current = 1
    /\ attempts = 0
    /\ timers = 0
    /\ heartbeatTimer = FALSE
    /\ sinceLastPong = 0

InitScene ==
    /\ requestMap = << >>
    /\ requestOrder = << >>
    /\ requestGroup = {}
    /\ spherePool = << >>
    /\ meshes = 0

\* The state after the module was loaded, but for the environment.
InitProgram ==
    /\ listening = FALSE
    /\ loops = << >>
    /\ nLoops = 0
    /\ fatals = 0
    /\ handles = << >>
    /\ cdpClient = 0
    /\ lastAttached = 0
    /\ shuttingDown = FALSE
    /\ heartbeat = TRUE
    /\ exited = FALSE
    /\ clients = << >>
    /\ readyState = [s \in Sockets |-> "NONE"]
    /\ isAlive = [s \in Sockets |-> FALSE]
    /\ terminated = [s \in Sockets |-> FALSE]
    /\ pings = [s \in Sockets |-> 0]
    /\ pongs = [s \in Sockets |-> 0]
    /\ missed = [s \in Sockets |-> 0]
    /\ sendThrows = {}
    /\ received = [s \in Sockets |-> << >>]
    /\ removedBy = [s \in Sockets |-> "none"]
    /\ nBroadcast = 0
    /\ uncaught = FALSE
    /\ rejected = {}
    /\ target = NoTarget
    /\ sentPings = [s \in Sockets |-> 0]
    /\ healthBody = NoResponse
    /\ exitCode = -1
    /\ codes = {}
    /\ InitClient
    /\ InitScene

\* No origin and no secret configured; the browser has one tab.
Init ==
    /\ InitProgram
    /\ ALLOWED_ORIGIN = ""
    /\ SHARED_SECRET = ""
    /\ list = <<[type |-> "page", url |-> <<"http://", "a">>]>>
    /\ maxAttempts = DEFAULT_MAX_ATTEMPTS

\* The upstream session with every outcome of every await, and no downstream
\* subscriber: broadcast finds an empty set.
NextUp ==
    \/ Start
    \/ \E i \in 1..Len(loops) : DiscoverOk(i)
    \/ \E i \in 1..Len(loops) : DiscoverFail(i)
    \/ \E i \in 1..Len(loops) : AttachOk(i)
    \/ \E i \in 1..Len(loops) : AttachFail(i)
    \/ \E i \in 1..Len(loops) : EnableOk(i)
    \/ \E i \in 1..Len(loops) : EnableFail(i)
    \/ \E i \in 1..Len(loops) : BackoffExpire(i)
    \/ \E h \in 1..Len(handles) : Disconnect(h)
    \/ \E h \in 1..Len(handles), kind \in Kinds : DomainEvent(h, kind)
    \/ \E h \in 1..Len(handles) : MetricsOk(h)
    \/ \E h \in 1..Len(handles) : MetricsFail(h)
    \/ \E h \in 1..Len(handles) : MetricsTick(h)
    \/ Shutdown
    \/ Exit

SpecUp == Init /\ [][NextUp]_vars

\* The hub with every subscriber event, fed by a session whose first attach
\* succeeds and stays up; its events are network responses.
NextHub ==
    \/ Start
    \/ \E i \in 1..Len(loops) : DiscoverOk(i)
    \/ \E i \in 1..Len(loops) : AttachOk(i)
    \/ \E i \in 1..Len(loops) : EnableOk(i)
    \/ \E ws \in Sockets : Connection(ws)
    \/ \E ws \in Sockets : PeerAnswers(ws)
    \/ \E ws \in Sockets : Pong(ws)
    \/ \E ws \in Sockets : PeerClosing(ws)
    \/ \E ws \in Sockets : SocketClose(ws)
    \/ \E ws \in Sockets : SocketError(ws)
    \/ \E ws \in Sockets : SendFault(ws)
    \/ Heartbeat
    \/ \E h \in 1..Len(handles), kind \in {"network"} : DomainEvent(h, kind)
    \/ Shutdown
    \/ Exit

SpecHub == Init /\ [][NextHub]_vars

\* The configurations of origin and secret: each unset or set.
InitAuth ==
    /\ InitProgram
    /\ ALLOWED_ORIGIN \in {"", "https://app"}
    /\ SHARED_SECRET \in {"", "s3cret"}
    /\ list = <<[type |-> "page", url |-> <<"http://", "a">>]>>
    /\ maxAttempts = DEFAULT_MAX_ATTEMPTS

\* Upgrade requests with every origin and token, under every configuration.
NextAuth ==
    \/ Start
    \/ \E ws \in Sockets, origin \in Origins, token \in Tokens : Upgrade(ws, origin, token)
    \/ \E ws \in Sockets : SocketClose(ws)
    \/ Heartbeat
    \/ Shutdown
    \/ Exit

SpecAuth == InitAuth /\ [][NextAuth]_vars

\* The hub through upstream outages: subscribers connect, receive events and
\* close while the session disconnects and reattaches.
NextOutage ==
    \/ Start
    \/ \E i \in 1..Len(loops) : DiscoverOk(i)
    \/ \E i \in 1..Len(loops) : DiscoverFail(i)
    \/ \E i \in 1..Len(loops) : AttachOk(i)
    \/ \E i \in 1..Len(loops) : EnableOk(i)
    \/ \E i \in 1..Len(loops) : BackoffExpire(i)
    \/ \E h \in 1..Len(handles) : Disconnect(h)
    \/ \E ws \in Sockets : Connection(ws)
    \/ \E ws \in Sockets : SocketClose(ws)
    \/ \E h \in 1..Len(handles), kind \in {"network"} : DomainEvent(h, kind)
    \/ Shutdown
    \/ Exit

SpecOutage == Init /\ [][NextOutage]_vars

\* Discovery against every list the browser may return: the attempts of the
\* initial sequence, each failing after its target was selected.
InitTarget ==
    /\ InitProgram
    /\ ALLOWED_ORIGIN = ""
    /\ SHARED_SECRET = ""
    /\ list \in Lists
    /\ maxAttempts = DEFAULT_MAX_ATTEMPTS

NextTarget ==
    \/ Start
    \/ \E i \in 1..Len(loops) : DiscoverOk(i)
    \/ \E i \in 1..Len(loops) : DiscoverNone(i)
    \/ \E i \in 1..Len(loops) : AttachFail(i)
    \/ \E i \in 1..Len(loops) : BackoffExpire(i)

SpecTarget == InitTarget /\ [][NextTarget]_vars

\* The hub with clients that run their heartbeat, fed by a session whose
\* first attach succeeds and stays up.
NextPing ==
    \/ Start
    \/ \E i \in 1..Len(loops) : DiscoverOk(i)
    \/ \E i \in 1..Len(loops) : AttachOk(i)
    \/ \E i \in 1..Len(loops) : EnableOk(i)
    \/ \E ws \in Sockets : Connection(ws)
    \/ \E ws \in Sockets : ClientTick(ws)
    \/ \E ws \in Sockets : PeerAnswers(ws)
    \/ \E ws \in Sockets : Pong(ws)
    \/ \E ws \in Sockets : SocketClose(ws)
    \/ Heartbeat
    \/ \E h \in 1..Len(handles), kind \in {"network"} : DomainEvent(h, kind)
    \/ Shutdown
    \/ Exit

SpecPing == Init /\ [][NextPing]_vars

\* The health endpoint, asked at every point of the upstream session.
NextHealth ==
    \/ Start
    \/ \E i \in 1..Len(loops) : DiscoverOk(i)
    \/ \E i \in 1..Len(loops) : DiscoverFail(i)
    \/ \E i \in 1..Len(loops) : AttachOk(i)
    \/ \E i \in 1..Len(loops) : EnableOk(i)
    \/ \E i \in 1..Len(loops) : BackoffExpire(i)
    \/ \E h \in 1..Len(handles) : Disconnect(h)
    \/ Health
    \/ Shutdown
    \/ Exit

SpecHealth == Init /\ [][NextHealth]_vars

\* The client's reconnect loop against a relay that may be down or come back,
\* under the default and under a small maxAttempts.
InitRetry ==
    /\ InitProgram
    /\ ALLOWED_ORIGIN = ""
    /\ SHARED_SECRET = ""
    /\ list = <<[type |-> "page", url |-> <<"http://", "a">>]>>
    /\ maxAttempts \in {DEFAULT_MAX_ATTEMPTS, 2}

NextRetry ==
    \/ \E id \in 1..MaxMade : SocketOpen(id)
    \/ \E id \in 1..MaxMade : SocketClosed(id)
    \/ \E id \in 1..MaxMade : SocketErrored(id)
    \/ TimerFires
    \/ HeartbeatTick

SpecRetry == InitRetry /\ [][NextRetry]_vars

\* The same client with manual reconnects.
NextClient ==
    \/ \E id \in 1..MaxMade : SocketOpen(id)
    \/ \E id \in 1..MaxMade : SocketClosed(id)
    \/ \E id \in 1..MaxMade : SocketErrored(id)
    \/ TimerFires
    \/ Reconnect
    \/ HeartbeatTick

SpecClient == Init /\ [][NextClient]_vars

\* The exit codes the process hands to shutdown: 0 from SIGINT and SIGTERM,
\* 1 from uncaughtException and unhandledRejection.
ExitCodes == {0, 1}

\* The closing handshake of a socket that is CLOSING ends: the peer answers
\* the close frame, or the ws library's close timer destroys the socket.
Closes(ws) == readyState[ws] = "CLOSING" /\ SocketClose(ws)

\* The relay with subscribers and its heartbeat, shut down at any point by a
\* signal or an uncaught error, any number of times.
NextDown ==
    \/ Start
    \/ \E i \in 1..Len(loops) : DiscoverOk(i)
    \/ \E i \in 1..Len(loops) : AttachOk(i)
    \/ \E i \in 1..Len(loops) : EnableOk(i)
    \/ \E ws \in Sockets : Connection(ws)
    \/ \E ws \in Sockets : PeerAnswers(ws)
    \/ \E ws \in Sockets : Pong(ws)
    \/ \E ws \in Sockets : PeerClosing(ws)
    \/ \E ws \in Sockets : SocketClose(ws)
    \/ \E ws \in Sockets : SocketError(ws)
    \/ Heartbeat
    \/ \E code \in ExitCodes : shutdown(code)
    \/ Exit

\* A closing handshake ends and the callback of server.close runs once the
\* last connection has ended.
FairDown == WF_vars(Exit) /\ \A ws \in Sockets : WF_vars(Closes(ws))

SpecDown == Init /\ [][NextDown]_vars /\ FairDown

\* ---- the browser client: scene (src/unnamed/part_000) ---------------------------
\* requestMap is a Map: a sequence of [id, mesh] entries in insertion order.
Ids == 1..MaxIds

\* Map.prototype.has
MapHas(map, id) == \E k \in 1..Len(map) : map[k].id = id

\* Map.prototype.get of a key the map has.
MapGet(map, id) == map[CHOOSE k \in 1..Len(map) : map[k].id = id].mesh

\* Map.prototype.set: a key the map has keeps its place.
MapSet(map, id, mesh) ==
    IF MapHas(map, id)
    THEN [k \in 1..Len(map) |->
            IF map[k].id = id THEN [id |-> id, mesh |-> mesh] ELSE map[k]]
    ELSE Append(map, [id |-> id, mesh |-> mesh])

\* Map.prototype.delete
MapDelete(map, id) == SelectSeq(map, LAMBDA e : e.id # id)

\* The meshes that are values of the map.
MapValues(map) == {map[k].mesh : k \in 1..Len(map)}

\* requestOrder.indexOf(id), 0 for -1.
indexOf(order, id) ==
    IF \E k \in 1..Len(order) : order[k] = id
    THEN CHOOSE k \in 1..Len(order) :
            order[k] = id /\ \A j \in 1..(k - 1) : order[j] # id
    ELSE 0

\* requestOrder.splice(idx, 1)
splice(order, idx) ==
    [k \in 1..(Len(order) - 1) |-> IF k < idx THEN order[k] ELSE order[k + 1]]

\* The scene as one value.
Scene ==
    [requestMap |-> requestMap, requestOrder |-> requestOrder,
     requestGroup |-> requestGroup, spherePool |-> spherePool, meshes |-> meshes]

\* The capacity guard of the 'network' branch.
CapacityGuard(sc) ==
    IF Len(sc.requestOrder) >= MAX_SPHERES
    THEN LET oldestId == Head(sc.requestOrder)
             shifted == [sc EXCEPT !.requestOrder = Tail(@)] IN
         IF MapHas(sc.requestMap, oldestId)
         THEN LET old == MapGet(sc.requestMap, oldestId) IN
              [shifted EXCEPT !.requestGroup = @ \ {old},
                              !.spherePool = Append(@, old),
                              !.requestMap = MapDelete(@, oldestId)]
         ELSE shifted
    ELSE sc

\* The mesh createRequestSphere returns: the last of the pool, or a new one.
Sphere(sc) ==
    IF sc.spherePool # << >>
    THEN sc.spherePool[Len(sc.spherePool)]
    ELSE sc.meshes + 1

\* createRequestSphere(ev) and the three calls that follow it.
createRequestSphere(sc, id) ==
    LET sphere == Sphere(sc) IN
    [requestMap |-> MapSet(sc.requestMap, id, sphere),
     requestOrder |-> Append(sc.requestOrder, id),
     requestGroup |-> sc.requestGroup \cup {sphere},
     spherePool |-> IF sc.spherePool # << >>
                    THEN SubSeq(sc.spherePool, 1, Len(sc.spherePool) - 1)
                    ELSE sc.spherePool,
     meshes |-> IF sc.spherePool # << >> THEN sc.meshes ELSE sc.meshes + 1]

\* The scene becomes sc.
SetScene(sc) ==
    /\ requestMap' = sc.requestMap
    /\ requestOrder' = sc.requestOrder
    /\ requestGroup' = sc.requestGroup
    /\ spherePool' = sc.spherePool
    /\ meshes' = sc.meshes
    /\ UNCHANGED <<healthVars, exitVars, clientVars, serverVars>>

\* A 'network' message that passes the filters (one that does not leaves
\* the scene as it is).
OnNetwork(id) ==
    LET sc == createRequestSphere(CapacityGuard(Scene), id) IN
    /\ sc.meshes <= MaxMeshes
    /\ SetScene(sc)

\* A 'networkFinish' message.
OnNetworkFinish(id) ==
    /\ MapHas(requestMap, id)
    /\ LET m == MapGet(requestMap, id)
           idx == indexOf(requestOrder, id) IN
       SetScene([Scene EXCEPT
                    !.requestGroup = @ \ {m},
                    !.requestMap = MapDelete(@, id),
                    !.requestOrder = IF idx > 0 THEN splice(@, idx) ELSE @,
                    !.spherePool = Append(@, m)])

\* clearAll(): the Clear button and window.__orbitviz__.clear.
clearAll ==
    /\ requestMap # << >> \/ requestOrder # << >>
    /\ SetScene([Scene EXCEPT
                    !.requestOrder = << >>,
                    !.requestGroup = @ \ MapValues(requestMap),
                    !.spherePool = @ \o [k \in 1..Len(requestMap) |-> requestMap[k].mesh],
                    !.requestMap = << >>])

\* The scene under every sequence of messages and clears.
NextScene ==
    \/ \E id \in Ids : OnNetwork(id)
    \/ \E id \in Ids : OnNetworkFinish(id)
    \/ clearAll

SpecScene == Init /\ [][NextScene]_vars

\* ---- the upstream session: claims ----------------------------------------
\* A handle is attached when its three listeners are registered and its
\* transport can still deliver events.
Attached(h) == handles[h].listeners /\ Live(h)

AttachedHandles == {h \in 1..Len(handles) : Attached(h)}

\* Some callback of handle h calls broadcast in this step.
Publishes(h) == (\E kind \in Kinds : DomainEvent(h, kind)) \/ MetricsOk(h)

\* A new attach attempt begins in this step (the discovery call is made).
AttemptStarts ==
    \/ Start
    \/ \E h \in 1..Len(handles) : Disconnect(h) /\ ~shuttingDown
    \/ \E i \in 1..Len(loops) : BackoffExpire(i) /\ ~shuttingDown

\* C1: in every reachable state at most one upstream handle is attached
\* (listeners registered, able to publish).
C1_AtMostOneAttached == Cardinality(AttachedHandles) <= 1

\* C2: every event passed to broadcast comes from the handle attached most
\* recently; no earlier handle's listener or metrics tick publishes.
C2_OnlyCurrentHandlePublishes ==
    [][\A h \in 1..Len(handles) : Publishes(h) => h = lastAttached]_vars

\* C4: once "Exceeded max attempts" has been reported, no further attach
\* attempt begins, and it is reported exactly once.
C4_GiveUpIsFinal ==
    [][(fatals >= 1 => ~AttemptStarts) /\ fatals' <= 1]_vars

\* C5: in every retry sequence, the delay that preceded attempt k >= 2 (and
\* the delay of the timer pending after failure k-1) is
\* RETRY_INTERVAL_MS * 2^(k-2); the first attempt was not delayed.
C5_BackoffDoubles ==
    \A i \in 1..Len(loops) :
        loops[i].delay = IF loops[i].attempt = 0 THEN 0
                         ELSE RETRY_INTERVAL_MS * Pow2(loops[i].attempt - 1)

\* Attempt 5 of a sequence is under way, after four failures and a delay of
\* 8 * RETRY_INTERVAL_MS.
C5_Witness ==
    \E i \in 1..Len(loops) :
        /\ loops[i].pc = "discover"
        /\ loops[i].attempt = MAX_RETRY_ATTEMPTS - 1
        /\ loops[i].delay = 8 * RETRY_INTERVAL_MS

\* C6: when an attached handle disconnects and shutdown has not begun, the
\* same step starts a new sequence: its first attempt is under way (no
\* delay), with the attempt counter at zero.
C6_DisconnectRestarts ==
    [][\A h \in 1..Len(handles) :
          (Disconnect(h) /\ handles[h].listeners /\ ~shuttingDown)
              => /\ Len(loops') = Len(loops) + 1
                 /\ loops'[Len(loops')] =
                        [pc |-> "discover", attempt |-> 0, h |-> 0, delay |-> 0]
                 /\ nLoops' = nLoops + 1]_vars

\* An attached handle has disconnected and the sequence it started is at its
\* first attempt.
C6_Witness ==
    /\ ~shuttingDown
    /\ \E h \in 1..Len(handles) : handles[h].listeners /\ handles[h].st = "closed"
    /\ nLoops = 2
    /\ Len(loops) = 1
    /\ loops[1].pc = "discover" /\ loops[1].attempt = 0

\* ---- the broadcast hub: claims ---------------------------------------------
\* The events a broadcast call of this step may carry.
Events ==
    [kind : Kinds \cup {"performance"}, src : 1..Len(handles), n : {nBroadcast'}]

Deliverable(s) == readyState[s] = "OPEN" /\ s \notin sendThrows

\* C3: a broadcast call hands the serialized event exactly once to every
\* subscriber whose socket is open and whose send does not throw, leaves every
\* other subscriber out of the set, and lets no exception escape.
C3_BroadcastDelivers ==
    [][nBroadcast' # nBroadcast =>
        /\ \E ev \in Events : \A s \in Sockets :
              InSeq(clients, s) =>
                  IF Deliverable(s)
                  THEN /\ received'[s] = Append(received[s], JSONstringify(ev))
                       /\ InSeq(clients', s)
                  ELSE /\ received'[s] = received[s]
                       /\ ~InSeq(clients', s)
        /\ uncaught' = uncaught]_vars

\* The only broadcast so far found the first subscriber throwing and the
\* second one open: the first is gone, the second has the frame.
C3_Witness ==
    /\ nBroadcast = 1
    /\ removedBy[1] = "sendError"
    /\ InSeq(clients, 2) /\ Len(received[2]) = 1

\* C7: no subscriber is still in the set after three sweeps it left
\* unanswered, and the sweep that evicts a subscriber terminates it.
C7_SilentEvicted ==
    \A s \in Sockets :
        /\ InSeq(clients, s) => missed[s] < 3
        /\ removedBy[s] = "heartbeat" => terminated[s] /\ ~InSeq(clients, s)

\* A subscriber that never answered was evicted by its second sweep.
C7_Witness ==
    \E s \in Sockets :
        removedBy[s] = "heartbeat" /\ missed[s] = 2 /\ terminated[s]

\* C8 as stated: a sweep never removes or terminates a subscriber whose peer
\* has answered every probe, wherever the answers are.
C8_AnsweringNeverEvicted ==
    [][Heartbeat =>
        \A s \in Sockets :
            (InSeq(clients, s) /\ readyState[s] = "OPEN" /\ pings[s] = 0)
                => InSeq(clients', s) /\ ~terminated'[s]]_vars

\* C8 amended: a sweep never removes or terminates a subscriber whose socket
\* is open and whose answers to all probes have arrived before the sweep.
C8_AnsweredInTimeNeverEvicted ==
    [][Heartbeat =>
        \A s \in Sockets :
            (InSeq(clients, s) /\ readyState[s] = "OPEN"
                /\ pings[s] = 0 /\ pongs[s] = 0)
                => InSeq(clients', s) /\ ~terminated'[s]]_vars

\* The second subscriber was evicted by a sweep; the first, which registered
\* before it and so went through the same sweeps, is still in the set, probed.
C8_Witness ==
    /\ removedBy[2] = "heartbeat"
    /\ InSeq(clients, 1) /\ readyState[1] = "OPEN" /\ pings[1] = 1

\* Never sent to again: what a socket outside the set has received is final.
NoSendOutsideSet ==
    \A s \in Sockets :
        (readyState[s] # "NONE" /\ ~InSeq(clients, s)) => received'[s] = received[s]

\* C9 as stated: broadcast removes and terminates every subscriber whose
\* socket is not open or whose send throws, and never sends to it again.
C9_FailedRemovedAndTerminated ==
    [][/\ nBroadcast' # nBroadcast =>
            \A s \in Sockets :
                (InSeq(clients, s) /\ ~Deliverable(s))
                    => ~InSeq(clients', s) /\ terminated'[s]
       /\ NoSendOutsideSet]_vars

\* C9 amended: broadcast removes both; it terminates the one whose send
\* throws and leaves the one whose socket is not open as it is.
C9_FailedRemoved ==
    [][/\ nBroadcast' # nBroadcast =>
            \A s \in Sockets :
                (InSeq(clients, s) /\ ~Deliverable(s))
                    => /\ ~InSeq(clients', s)
                       /\ received'[s] = received[s]
                       /\ IF readyState[s] = "OPEN"
                          THEN terminated'[s]
                          ELSE /\ terminated'[s] = terminated[s]
                               /\ readyState'[s] = readyState[s]
       /\ NoSendOutsideSet]_vars

\* Broadcast has removed one subscriber for a socket that was not open,
\* without terminating it, and one for a throwing send, terminated.
C9_Witness ==
    \E s, t \in Sockets :
        /\ removedBy[s] = "notOpen" /\ ~terminated[s]
        /\ removedBy[t] = "sendError" /\ terminated[t]

\* C10: every subscriber has its frames in the order of the broadcast calls.
C10_FramesInCallOrder ==
    \A s \in Sockets : \A i, j \in 1..Len(received[s]) :
        i < j => received[s][i].json.n < received[s][j].json.n

\* A subscriber has received the frames of two broadcast calls.
C10_Witness == \E s \in Sockets : Len(received[s]) = MaxEvents /\ MaxEvents >= 2
\* ---- the upgrade request: claims ------------------------------------------
\* C11: an upgrade request is accepted if and only if (no allowed origin is
\* configured or its Origin equals it) and (no secret is configured or its
\* token equals it); any other request is answered 401 and adds no subscriber,
\* and a rejected request is never in the subscriber set.
C11_AcceptedIffAuthorized ==
    [][\A ws \in Sockets, origin \in Origins, token \in Tokens :
          Upgrade(ws, origin, token) =>
              LET ok == /\ ALLOWED_ORIGIN = "" \/ origin = ALLOWED_ORIGIN
                        /\ SHARED_SECRET = "" \/ token = SHARED_SECRET
              IN /\ ok <=> InSeq(clients', ws)
                 /\ ok <=> ws \notin rejected'
                 /\ ~ok => clients' = clients /\ readyState' = readyState
                 /\ \A s \in rejected : ~InSeq(clients', s)]_vars

\* With a secret configured, one request was answered 401 and the next one
\* registered.
C11_Witness ==
    /\ SHARED_SECRET # ""
    /\ 1 \in rejected /\ readyState[1] = "NONE"
    /\ InSeq(clients, 2)

\* ---- outages and shutdown: claims -------------------------------------------
\* The session was attached before and no handle is attached now.
Outage == lastAttached # 0 /\ AttachedHandles = {} /\ ~shuttingDown

\* C12: by the time an upstream outage ends with a new attach, every
\* subscriber that was connected when the session was lost (it holds events
\* of the lost session) has had its socket closed by the relay.
C12_ClosedDuringOutage ==
    [][\A i \in 1..Len(loops) :
          (Outage /\ EnableOk(i)) =>
              \A s \in Sockets : received[s] # << >> => readyState[s] # "OPEN"]_vars

\* The invocations that are at their discovery call.
Discovering(q) == Cardinality({i \in 1..Len(q) : q[i].pc = "discover"})

\* C13: once shuttingDown is set, no step begins an attach attempt: no
\* invocation arrives at its discovery call (not after a backoff, not after a
\* failed attempt) and no disconnect starts a new invocation.
C13_NoAttemptAfterShutdown ==
    [][shuttingDown => /\ Discovering(loops') <= Discovering(loops)
                       /\ nLoops' = nLoops]_vars

\* Shutdown came while the only invocation was attaching: its attempt failed,
\* its backoff ended at the loop guard, and the handle's disconnect started
\* nothing.
C13_Witness ==
    /\ shuttingDown /\ nLoops = 1 /\ loops = << >>
    /\ fatals = 0 /\ lastAttached = 0
    /\ \E h \in 1..Len(handles) : handles[h].st = "closed"

\* C14: once shutdown() has run, no upstream handle is open and no upstream
\* event is broadcast, wherever the attach sequence was when it was called.
C14_ClosedAfterShutdown ==
    [][shuttingDown =>
          /\ \A h \in 1..Len(handles') : handles'[h].st # "open"
          /\ nBroadcast' = nBroadcast]_vars

\* The handles whose metrics timer chain is live: a fetch is pending or the
\* timer is armed.
LiveTimers == {h \in 1..Len(handles) : handles[h].timer \in {"fetch", "wait"}}

\* C15: a metrics tick that finds its handle disconnected, or shutdown begun,
\* does not go on; and at most one timer chain is live at any time.
C15_MetricsTimerStops ==
    [][/\ \A h \in 1..Len(handles) :
              (MetricsTick(h) /\ (handles[h].st = "closed" \/ shuttingDown))
                  => handles'[h].timer = "stopped"
       /\ Cardinality(LiveTimers') <= 1]_vars

\* ---- domain activation: claims ----------------------------------------------
\* Some invocation is waiting for the enable calls of handle h.
Enabling(h) == \E i \in 1..Len(loops) : loops[i].pc = "enable" /\ loops[i].h = h

\* C16: when an enable call fails, the attempt counts as a failed attempt (the
\* counter goes up by one and the backoff of that count follows, or the
\* sequence gives up at the maximum), the attached handle does not change, and
\* the handle of the failed attempt has no listener and no metrics timer,
\* then and ever after.
C16_EnableFailureIsAttachFailure ==
    [][/\ \A i \in 1..Len(loops) :
              EnableFail(i) =>
                  LET k == loops[i].attempt + 1 IN
                  /\ ~handles'[loops[i].h].listeners
                  /\ handles'[loops[i].h].timer = "none"
                  /\ lastAttached' = lastAttached
                  /\ IF k >= MAX_RETRY_ATTEMPTS
                     THEN fatals' = fatals + 1 /\ Len(loops') = Len(loops) - 1
                     ELSE /\ loops'[i].pc = "backoff"
                          /\ loops'[i].attempt = k
                          /\ loops'[i].delay = RETRY_INTERVAL_MS * Pow2(k - 1)
       /\ \A h \in 1..Len(handles) :
              (~handles[h].listeners /\ ~Enabling(h))
                  => ~handles'[h].listeners /\ handles'[h].timer = "none"]_vars

\* The enable calls of the first attempt failed: its handle is open without
\* listeners, and the sequence is in the backoff of one failure.
C16_Witness ==
    /\ Len(handles) = 1 /\ handles[1].st = "open"
    /\ ~handles[1].listeners /\ ~Enabling(1)
    /\ Len(loops) = 1 /\ loops[1].pc = "backoff" /\ loops[1].attempt = 1

\* ---- target discovery: claims -----------------------------------------------
\* The first element of l that Pref holds of; else the first element; else
\* no target.
FirstPreferred(l, Pref(_)) ==
    LET idx == {k \in 1..Len(l) : Pref(l[k])} IN
    IF idx # {} THEN l[CHOOSE k \in idx : \A j \in idx : k <= j]
    ELSE IF l # << >> THEN l[1] ELSE NoTarget

InternalScheme(url) == startsWith(url, "devtools://") \/ startsWith(url, "chrome://")

PageOrBackground(t) == t.type \in {"page", "background_page"}

PreferredAsStated(t) == PageOrBackground(t) /\ ~InternalScheme(t.url)

PreferredWithUrl(t) == PageOrBackground(t) /\ t.url # << >> /\ ~InternalScheme(t.url)

\* The target an attempt goes on with is the preferred one of the list; with
\* no target the attempt fails before CDP() is called.
SelectedIs(Pref(_)) ==
    /\ target # NoTarget => target = FirstPreferred(list, Pref)
    /\ \A i \in 1..Len(loops) :
          loops[i].pc = "attach" => target # NoTarget
    /\ list = << >> =>
          /\ target = NoTarget
          /\ \A i \in 1..Len(loops) : loops[i].pc \in {"discover", "backoff"}

\* C17 as stated: the selected target is the first page or background
\* candidate whose url is not of an internal scheme, else the first candidate;
\* an empty list gives no target and a failed attempt.
C17_SelectsAsStated == SelectedIs(PreferredAsStated)

\* C17 amended: the preferred candidate also has a non-empty url.
C17_SelectsFirstPageWithUrl == SelectedIs(PreferredWithUrl)

\* The list starts with a page that has no url: the second page was selected.
C17_Witness ==
    /\ list = <<[type |-> "page", url |-> << >>],
                [type |-> "page", url |-> <<"http://", "a">>]>>
    /\ target = list[2]
    /\ \E i \in 1..Len(loops) : loops[i].pc = "attach"

\* ---- subscriber failures: claims ---------------------------------------------
\* The connection state and retry counters of the upstream session.
Upstream == <<loops, nLoops, fatals, handles, cdpClient, lastAttached>>

\* The send to subscriber s fails in a broadcast of this step.
SendFails(s) ==
    /\ nBroadcast' # nBroadcast
    /\ InSeq(clients, s) /\ readyState[s] = "OPEN" /\ s \in sendThrows

\* C18: a transport error of a subscriber, or a failing send to it, changes
\* nothing for any other subscriber (it stays in or out of the set and keeps
\* its isAlive flag as its own state decides, and its frames are those it
\* gets without the failure) nor for the upstream session.
C18_FailureIsLocal ==
    [][\A s \in Sockets :
          /\ SocketError(s) =>
                /\ \A t \in Sockets \ {s} :
                      /\ InSeq(clients', t) <=> InSeq(clients, t)
                      /\ isAlive'[t] = isAlive[t]
                      /\ received'[t] = received[t]
                /\ Upstream' = Upstream
          /\ SendFails(s) =>
                /\ \E ev \in Events : \A t \in Sockets \ {s} :
                      /\ InSeq(clients', t) <=> (InSeq(clients, t) /\ Deliverable(t))
                      /\ isAlive'[t] = isAlive[t]
                      /\ received'[t] = IF InSeq(clients, t) /\ Deliverable(t)
                                        THEN Append(received[t], JSONstringify(ev))
                                        ELSE received[t]
                /\ Upstream' = Upstream
                /\ uncaught' = uncaught]_vars

\* The send to the first subscriber failed in the first broadcast; the second
\* subscriber has the frames of that broadcast and of the next.
C18_Witness ==
    /\ removedBy[1] = "sendError" /\ received[1] = << >>
    /\ InSeq(clients, 2) /\ Len(received[2]) = 2

Paths == {"close", "error", "heartbeat", "notOpen", "sendError"}

\* A removal path runs on subscriber s in this step.
Removes(s) ==
    \/ InSeq(clients, s) /\ ~InSeq(clients', s)
    \/ SocketClose(s)
    \/ SocketError(s)

\* C19: where a removal path runs on a subscriber, removing it again, by any
\* path after any path, leaves the set as the first removal left it; the
\* close and error handlers of a socket take that socket out and no other,
\* raise nothing, and change nothing when it is already out.
C19_RemovalIdempotent ==
    [][\A s \in Sockets :
          /\ Removes(s) =>
                \A p, q \in Paths :
                    LET once == Delete(HubState, s, p) IN
                    /\ Delete(once, s, q).clients = once.clients
                    /\ \A t \in Sockets \ {s} :
                          InSeq(once.clients, t) <=> InSeq(clients, t)
          /\ (SocketClose(s) \/ SocketError(s)) =>
                /\ ~InSeq(clients', s)
                /\ \A t \in Sockets \ {s} : InSeq(clients', t) <=> InSeq(clients, t)
                /\ ~InSeq(clients, s) => clients' = clients
                /\ uncaught' = uncaught]_vars

\* The first subscriber was evicted by the sweep and its close event came
\* afterwards, with the second subscriber in the set.
C19_Witness ==
    /\ removedBy[1] = "heartbeat" /\ readyState[1] = "CLOSED"
    /\ InSeq(clients, 2)

\* ---- the client's heartbeat: claims -------------------------------------------
\* C20: the pings of a connected client are acknowledged: by the tick at
\* which the client would give the connection up for lack of a pong, a pong
\* frame of the relay has reached it.
C20_PingAcknowledged ==
    \A s \in Sockets : ClientTimedOut(sentPings[s]) => ClientSawPong(s)

\* ---- the HTTP side channel: claims --------------------------------------------
\* C21: the body of a /health response says whether an upstream session is
\* attached, and says so truthfully for the state at the time of the request.
C21_HealthReportsAttached ==
    [][Health => /\ "attached" \in DOMAIN healthBody'
                 /\ healthBody'.attached = (AttachedHandles # {})]_vars

\* ---- the browser client: claims -----------------------------------------------
\* C22: with the default configuration the client gives up after
\* README_MAX_ATTEMPTS consecutive failed reconnection attempts: once attempts
\* has passed that number, no connect is scheduled.
C22_DefaultGivesUpAfterFive ==
    (maxAttempts = DEFAULT_MAX_ATTEMPTS /\ attempts > README_MAX_ATTEMPTS)
        => timers = 0

\* The client's sockets that are connecting or open.
LiveSockets(q) == {k \in 1..Len(q) : q[k].st \in {"connecting", "open"}}

\* C28: at most one reconnect is pending and at most one socket is open or
\* connecting, and the 'close' of a socket that connect() has replaced
\* schedules no reconnect.
C28_OneConnection ==
    [][/\ \A id \in 1..MaxMade :
              (SocketClosed(id) /\ id # current) => timers' = timers
       /\ timers' <= 1
       /\ Cardinality(LiveSockets(sockets')) <= 1]_vars

\* ---- attach sequences and handles: claims ---------------------------------------
\* C23: at most one invocation of attachToChromeWithRetry has not returned.
C23_OneSequence == Len(loops) <= 1

\* The handle of an attempt whose enable calls failed.
FailedHandle(h) == ~handles[h].listeners /\ ~Enabling(h)

\* C24: when an attempt starts (an invocation is at its discovery call), every
\* handle of a failed attempt is closed, so none can disconnect later and
\* start a reattach.
C24_FailedHandleClosed ==
    (\E i \in 1..Len(loops) : loops[i].pc = "discover")
        => \A h \in 1..Len(handles) : FailedHandle(h) => handles[h].st = "closed"

\* ---- the metrics timer: claims --------------------------------------------------
\* C25: a failed fetch broadcasts nothing, changes nothing of the upstream
\* session but its own timer, and arms the next tick as a successful fetch
\* does; a tick that finds its session live and no shutdown begun starts the
\* next fetch; and a timer is armed only by the completion of a fetch.
C25_FailedFetchKeepsTicking ==
    [][\A h \in 1..Len(handles) :
          /\ MetricsFail(h) =>
                /\ nBroadcast' = nBroadcast /\ received' = received
                /\ <<loops, nLoops, fatals, cdpClient, lastAttached>>'
                      = <<loops, nLoops, fatals, cdpClient, lastAttached>>
                /\ handles' = [handles EXCEPT ![h].timer = "wait"]
          /\ MetricsOk(h) => handles'[h].timer = "wait"
          /\ (MetricsTick(h) /\ Live(h) /\ ~shuttingDown)
                => handles'[h].timer = "fetch"
          /\ (Len(handles') = Len(handles) /\ handles'[h].timer = "wait")
                => handles[h].timer \in {"fetch", "wait"}]_vars

\* A fetch of the attached handle failed and its timer is armed again.
C25_Witness ==
    \E h \in 1..Len(handles) :
        /\ Attached(h) /\ ~shuttingDown
        /\ handles[h].timer = "wait" /\ nBroadcast = 0

\* ---- the client's watchdog: claims ---------------------------------------------
\* C27: the watchdog of a client whose socket is open at a running relay
\* (a member of the subscriber set, no shutdown begun) never closes it: the
\* socket is still open after every tick of the client's heartbeat timer.
C27_WatchdogSparesHealthy ==
    [][\A ws \in Sockets :
          (ClientTick(ws) /\ ~shuttingDown /\ InSeq(clients, ws))
              => readyState'[ws] = "OPEN"]_vars

\* ---- teardown: claims ---------------------------------------------------------
\* C26: once shutdown has begun no heartbeat sweep runs; a call of shutdown
\* leaves no member of the subscriber set open (each got a close); the exit
\* code is the one passed to the first call and later calls do not change
\* it; the process exits only when every downstream socket has closed, and
\* after shutdown has begun it does exit.
C26_ShutdownCompletes ==
    /\ [][/\ shuttingDown => ~(Heartbeat /\ vars' # vars)
          /\ \A code \in ExitCodes :
                shutdown(code) =>
                    /\ ~heartbeat'
                    /\ \A s \in Sockets :
                          InSeq(clients, s) => readyState'[s] \in {"CLOSING", "CLOSED"}
                    /\ ~shuttingDown => exitCode' = code
          /\ shuttingDown => exitCode' = exitCode
          /\ exited' => /\ exitCode' \in codes'
                        /\ \A s \in Sockets : readyState'[s] \in {"NONE", "CLOSED"}]_vars
    /\ (shuttingDown ~> exited)

\* shutdown(1) and then shutdown(0) were called with both subscribers in the
\* set: both are closing, the exit code is 1 and the process has yet to exit.
C26_Witness ==
    /\ shuttingDown /\ ~exited /\ ~heartbeat
    /\ codes = ExitCodes /\ exitCode = 1
    /\ \A s \in Sockets : InSeq(clients, s) /\ readyState[s] = "CLOSING"

\* ---- the browser client's scene: claims ----------------------------------------
\* The number of times id occurs in order.
Occurrences(order, id) == Cardinality({k \in 1..Len(order) : order[k] = id})

\* C29: the spheres in the scene group are exactly the values of requestMap,
\* requestOrder holds every tracked id once and no other id, and there are
\* never more than MAX_SPHERES of them.
C29_SceneTracksRequests ==
    /\ requestGroup = MapValues(requestMap)
    /\ \A id \in Ids :
          Occurrences(requestOrder, id) = IF MapHas(requestMap, id) THEN 1 ELSE 0
    /\ Cardinality(requestGroup) <= MAX_SPHERES
    /\ Len(requestOrder) <= MAX_SPHERES
====
